---------------------------- MODULE Spec2Model ----------------------------
(***************************************************************************)
(* Three self-contained examples of the repository, each with its own      *)
(* in-memory or on-disk store and its own request handlers:                *)
(*                                                                         *)
(*   _21_Body_Updates.py               items store, GET / PUT / PATCH      *)
(*   _30_Security_Simple_OAuth2.py     fake_users_db, POST /token,         *)
(*                                     GET /users/me                       *)
(*   _34_SQL_Databases_with_SQLModel.py  hero table, CRUD handlers         *)
(*                                                                         *)
(* The files are not imported by one another and share no state, so each   *)
(* example has its own specification (SpecItems, SpecAuth, SpecHeroes);    *)
(* under one example's specification the other examples' variables stay    *)
(* at their initial values.                                                *)
(*                                                                         *)
(* Encoding of Python values:                                              *)
(*   Optional[T]     <<>> is None, <<v>> is the value v                    *)
(*   float           the number of tenths (10.5 is 105, 62 is 620); the    *)
(*                   int 62 and the float 62.0 are the same number         *)
(*   list[str]       a sequence of strings                                 *)
(*   dict            a function whose DOMAIN is the set of keys            *)
(***************************************************************************)
EXTENDS Integers, Sequences, FiniteSets, TLC

VARIABLES
    items,          \* _21: the items dict, item_id -> stored dict
    item_req,       \* _21: the last request served and its outcome
    item_n,         \* _21: number of requests served so far
    fake_users_db,  \* _30: the users dict, username -> user dict
    auth_req,       \* _30: the last request served and its outcome
    issued,         \* _30: access tokens handed out by POST /token so far
    heroes,         \* _34: the hero table, id -> row
    hero_req,       \* _34: the last request served and its outcome
    deleted         \* _34: ids deleted and not given to a new row since

vars == <<items, item_req, item_n, fake_users_db, auth_req, issued,
          heroes, hero_req, deleted>>

item_vars == <<items, item_req, item_n>>
auth_vars == <<fake_users_db, auth_req, issued>>
hero_vars == <<heroes, hero_req, deleted>>

None == <<>>
Some(v) == <<v>>
EmptyDict == <<>>

(***************************************************************************)
(*                       _21_Body_Updates.py                               *)
(***************************************************************************)

\* Longest run of requests explored against the items store.
MaxItemRequests == 2

\* tax: float = 10.5, in tenths.
DefaultTax == 105

ItemFields == {"name", "description", "price", "tax", "tags"}

\* class Item(BaseModel): the default of each field.
ItemDefault(f) ==
    CASE f = "name"        -> None
      [] f = "description" -> None
      [] f = "price"       -> None
      [] f = "tax"         -> DefaultTax
      [] f = "tags"        -> <<>>

\* Item(**d): a model instance is its field values (defaults filled in for
\* the keys d lacks) together with the set of fields that were explicitly set.
Item(d) ==
    [v   |-> [f \in ItemFields |-> IF f \in DOMAIN d THEN d[f] ELSE ItemDefault(f)],
     set |-> DOMAIN d]

\* A mutant of model_dump_exclude_unset: model_dump() without exclude_unset,
\* which also returns the defaults of the fields the request left out.
model_dump_all(m) == [f \in ItemFields |-> m.v[f]]

\* item.model_dump(exclude_unset=True): only the explicitly set fields.
model_dump_exclude_unset(m) == [f \in m.set |-> m.v[f]]

\* stored_item_model.model_copy(update=update_data)
model_copy(m, update) ==
    [v   |-> [f \in ItemFields |-> IF f \in DOMAIN update THEN update[f] ELSE m.v[f]],
     set |-> m.set \cup DOMAIN update]

\* A mutant of jsonable_encoder: it encodes with exclude_unset, so the fields
\* the request left out are missing from the stored dict.
jsonable_encoder_unset(m) == [f \in m.set |-> m.v[f]]

\* jsonable_encoder(model): a plain dict with every field of the model, the
\* unset ones included (with their defaults); the set of set fields is lost.
jsonable_encoder(m) == [f \in ItemFields |-> m.v[f]]

\* The items dict as the module creates it.
InitItems ==
    [id \in {"foo", "bar", "baz"} |->
        CASE id = "foo" -> ("name" :> Some("Foo")) @@ ("price" :> Some(502))
          [] id = "bar" -> ("name" :> Some("Bar")) @@ ("description" :> Some("The bartenders"))
                           @@ ("price" :> Some(620)) @@ ("tax" :> 202)
          [] id = "baz" -> ("name" :> Some("Baz")) @@ ("description" :> None)
                           @@ ("price" :> Some(502)) @@ ("tax" :> DefaultTax)
                           @@ ("tags" :> <<>>)]

\* Path parameters tried: the three stored ids and one that is not stored.
ItemIds == {"foo", "bar", "baz", "qux"}

\* The value a request body gives to a field it contains (each passes Item's
\* validation). name, price and description are those of the PUT body of the
\* file's example scenario, {"name": "Barz", "price": 3, "description": None}:
\* description is given explicitly with the value that is also its default.
ItemReqValue(f) ==
    CASE f = "name"        -> Some("Barz")
      [] f = "description" -> None
      [] f = "price"       -> Some(30)
      [] f = "tax"         -> 55
      [] f = "tags"        -> <<"x">>

\* Request bodies: any subset of the fields present, the others omitted.
ItemBodies == {[f \in S |-> ItemReqValue(f)] : S \in SUBSET ItemFields}

\* The outcome of a handler that returned normally (response_model=Item
\* serialises every field of the returned object).
ItemOk(op, item_id, body, returned) ==
    [op |-> op, item_id |-> item_id, body |-> body, status |-> 200,
     exc |-> "", response |-> jsonable_encoder(returned)]

\* The outcome of a handler that raised: no handler for KeyError is
\* registered, so the exception escapes and the server answers 500.
ItemRaised(op, item_id, body, exc) ==
    [op |-> op, item_id |-> item_id, body |-> body, status |-> 500,
     exc |-> exc, response |-> EmptyDict]

\* GET /items/{item_id}: return items[item_id]
read_item(item_id) ==
    /\ item_n < MaxItemRequests
    /\ item_n' = item_n + 1
    /\ items' = items
    /\ item_req' = IF item_id \in DOMAIN items
                   THEN ItemOk("GET", item_id, EmptyDict, Item(items[item_id]))
                   ELSE ItemRaised("GET", item_id, EmptyDict, "KeyError")
    /\ UNCHANGED <<auth_vars, hero_vars>>

\* PUT /items/{item_id}: items[item_id] = jsonable_encoder(item)
update_item_put(item_id, body) ==
    LET item == Item(body)
        update_item_encoded == jsonable_encoder(item)
    IN  /\ item_n < MaxItemRequests
        /\ item_n' = item_n + 1
        /\ items' = [id \in DOMAIN items \cup {item_id} |->
                        IF id = item_id THEN update_item_encoded ELSE items[id]]
        /\ item_req' = ItemOk("PUT", item_id, body, Item(update_item_encoded))
        /\ UNCHANGED <<auth_vars, hero_vars>>

\* PATCH /items/{item_id}: merge the explicitly set fields into the stored item
update_item_patch(item_id, body) ==
    /\ item_n < MaxItemRequests
    /\ item_n' = item_n + 1
    /\ IF item_id \in DOMAIN items
       THEN LET item == Item(body)
                stored_item_data == items[item_id]
                stored_item_model == Item(stored_item_data)
                update_data == model_dump_exclude_unset(item)
                updated_item == model_copy(stored_item_model, update_data)
            IN  /\ items' = [items EXCEPT ![item_id] = jsonable_encoder(updated_item)]
                /\ item_req' = ItemOk("PATCH", item_id, body, updated_item)
       ELSE /\ items' = items
            /\ item_req' = ItemRaised("PATCH", item_id, body, "KeyError")
    /\ UNCHANGED <<auth_vars, hero_vars>>

NoItemReq ==
    [op |-> "none", item_id |-> "", body |-> EmptyDict, status |-> 0,
     exc |-> "", response |-> EmptyDict]

ItemsInit ==
    /\ items = InitItems
    /\ item_req = NoItemReq
    /\ item_n = 0

ItemsNext ==
    \/ \E item_id \in ItemIds : read_item(item_id)
    \/ \E item_id \in ItemIds, body \in ItemBodies : update_item_put(item_id, body)
    \/ \E item_id \in ItemIds, body \in ItemBodies : update_item_patch(item_id, body)

\* A stored dict as a reader of the store sees it: read through the Item
\* model, a key the dict lacks has the field's default.
ItemValue(d, f) == IF f \in DOMAIN d THEN d[f] ELSE ItemDefault(f)

\* C1: a successful PATCH leaves every field the request body did not name
\* with the value the stored item had before (a key the stored dict lacked
\* counting as its default), keeps every key the stored dict had, and gives
\* every field the body named the body's value.
C1_PatchKeepsOmittedFields ==
    [][(item_req'.op = "PATCH" /\ item_req'.status = 200) =>
        LET id == item_req'.item_id
            b  == item_req'.body
        IN  /\ id \in DOMAIN items /\ id \in DOMAIN items'
            /\ DOMAIN items[id] \subseteq DOMAIN items'[id]
            /\ \A f \in ItemFields :
                  IF f \in DOMAIN b
                  THEN f \in DOMAIN items'[id] /\ items'[id][f] = b[f]
                  ELSE ItemValue(items'[id], f) = ItemValue(items[id], f)]_vars

\* C1 witness. The file's PATCH scenario: {"price": ...} alone over "bar" keeps tax 20.2.
C1_Witness ==
    /\ item_req.op = "PATCH" /\ item_req.status = 200
    /\ item_req.item_id = "bar"
    /\ DOMAIN item_req.body = {"price"}
    /\ items["bar"]["price"] = Some(30)
    /\ items["bar"]["tax"] = 202
    /\ items["bar"]["name"] = Some("Bar")

\* C2: after PUT the stored item is the request's Item: every field the body
\* named has the body's value and every other field its model default,
\* whatever was stored before.
C2_PutReplacesWholeItem ==
    item_req.op = "PUT" =>
        /\ item_req.status = 200
        /\ item_req.item_id \in DOMAIN items
        /\ DOMAIN items[item_req.item_id] = ItemFields
        /\ \A f \in ItemFields :
              items[item_req.item_id][f] =
                  IF f \in DOMAIN item_req.body THEN item_req.body[f] ELSE ItemDefault(f)

\* C2 witness. The file's PUT scenario: {name, price, description} over "bar", whose tax
\* was 20.2, leaves tax at the default 10.5.
C2_Witness ==
    /\ item_req.op = "PUT"
    /\ item_req.item_id = "bar"
    /\ DOMAIN item_req.body = {"name", "price", "description"}
    /\ items["bar"]["name"] = Some("Barz")
    /\ items["bar"]["tax"] = DefaultTax
    /\ item_n = 1

\* C3: a GET, PUT or PATCH whose item_id is not in the store ends in a
\* handled 404 and leaves the store as it was.
C3_MissingItemIs404 ==
    [][(item_req'.op \in {"GET", "PUT", "PATCH"} /\ item_req'.item_id \notin DOMAIN items) =>
        /\ item_req'.status = 404
        /\ item_req'.exc = ""
        /\ items' = items]_vars

(***************************************************************************)
(*                   _30_Security_Simple_OAuth2.py                         *)
(***************************************************************************)

\* fake_users_db as the module creates it.
InitUsersDb ==
    [u \in {"johndoe", "alice"} |->
        IF u = "johndoe"
        THEN [username |-> "johndoe", full_name |-> "John Doe",
              email |-> "johndoe@example.com",
              hashed_password |-> "fakehashedsecret", disabled |-> FALSE]
        ELSE [username |-> "alice", full_name |-> "Alice Wonderson",
              email |-> "alice@example.com",
              hashed_password |-> "fakehashedsecret2", disabled |-> TRUE]]

\* A mutant of fake_hash_password: the password is compared as it was sent.
fake_hash_password_plain(password) == password

\* fake_hash_password(password)
fake_hash_password(password) == "fakehashed" \o password

\* UserInDB(**user_dict): all five keys are fields of the model.
UserInDB(user_dict) ==
    [username |-> user_dict.username, email |-> user_dict.email,
     full_name |-> user_dict.full_name, disabled |-> user_dict.disabled,
     hashed_password |-> user_dict.hashed_password]

\* get_user(db, username): the user, or None when the key is missing.
get_user(db, username) ==
    IF username \in DOMAIN db THEN Some(UserInDB(db[username])) ELSE None

\* fake_decode_token(token)
fake_decode_token(token) == get_user(fake_users_db, token)

\* What a dependency or a handler hands on: a value, or an HTTPException.
Returned(value) == [raised |-> FALSE, value |-> value]
HTTPException(status_code, detail, headers) ==
    [raised |-> TRUE, status_code |-> status_code, detail |-> detail,
     headers |-> headers]

NoHeaders == <<>>
WWWAuthenticateBearer == [WWW_Authenticate |-> "Bearer"]

\* oauth2_scheme = OAuth2PasswordBearer(tokenUrl="token"): the token of the
\* Authorization: Bearer header; without the header the scheme itself
\* answers 401 (auto_error).
oauth2_scheme(authorization) ==
    IF authorization = None
    THEN HTTPException(401, "Not authenticated", WWWAuthenticateBearer)
    ELSE Returned(authorization[1])

\* A mutant of get_current_user: the 401 is raised without its headers.
get_current_user_no_header(token_dep) ==
    IF token_dep.raised THEN token_dep
    ELSE LET user == fake_decode_token(token_dep.value)
         IN  IF user = None
             THEN HTTPException(401, "Invalid authentication credentials", NoHeaders)
             ELSE Returned(user[1])

\* get_current_user(token = Depends(oauth2_scheme))
get_current_user(token_dep) ==
    IF token_dep.raised THEN token_dep
    ELSE LET user == fake_decode_token(token_dep.value)
         IN  IF user = None
             THEN HTTPException(401, "Invalid authentication credentials",
                                WWWAuthenticateBearer)
             ELSE Returned(user[1])

\* A mutant of get_current_active_user: the disabled flag is not looked at.
get_current_active_user_unchecked(current_user_dep) == current_user_dep

\* get_current_active_user(current_user = Depends(get_current_user))
get_current_active_user(current_user_dep) ==
    IF current_user_dep.raised THEN current_user_dep
    ELSE IF current_user_dep.value.disabled
         THEN HTTPException(400, "Inactive user", NoHeaders)
         ELSE Returned(current_user_dep.value)

\* The outcome of a request as the client sees it. handler_ran tells whether
\* the path operation function itself was executed.
AuthOutcome(op, username, password, authorization, result, handler_ran) ==
    [op |-> op, username |-> username, password |-> password,
     authorization |-> authorization,
     status |-> IF result.raised THEN result.status_code ELSE 200,
     detail |-> IF result.raised THEN result.detail ELSE "",
     headers |-> IF result.raised THEN result.headers ELSE NoHeaders,
     body |-> IF result.raised THEN EmptyDict ELSE result.value,
     handler_ran |-> handler_ran]

\* The body of login: what it returns or raises.
login_result(username, password) ==
    IF username \notin DOMAIN fake_users_db
    THEN HTTPException(400, "Incorrect username or password", NoHeaders)
    ELSE LET user == UserInDB(fake_users_db[username])
             hashed_password == fake_hash_password(password)
         IN  IF ~(hashed_password = user.hashed_password)
             THEN HTTPException(400, "Incorrect username or password", NoHeaders)
             ELSE Returned([access_token |-> user.username, token_type |-> "bearer"])

\* A mutant of login: the computed hash is assigned to the user's dict, which
\* is the dict stored in fake_users_db, instead of being compared with it.
login_overwrites(username, password) ==
    LET result == Returned([access_token |-> username, token_type |-> "bearer"])
    IN  /\ username \in DOMAIN fake_users_db
        /\ auth_req' = AuthOutcome("login", username, password, None, result, TRUE)
        /\ issued' = issued \cup {username}
        /\ fake_users_db' = [fake_users_db EXCEPT
               ![username].hashed_password = fake_hash_password(password)]
        /\ UNCHANGED <<item_vars, hero_vars>>

\* POST /token
login(username, password) ==
    LET result == login_result(username, password)
    IN  /\ auth_req' = AuthOutcome("login", username, password, None, result, TRUE)
        /\ issued' = IF result.raised THEN issued
                     ELSE issued \cup {result.value.access_token}
        /\ UNCHANGED fake_users_db
        /\ UNCHANGED <<item_vars, hero_vars>>

\* GET /users/me: the dependencies run first; read_users_me returns
\* current_user only when none of them raised.
read_users_me(authorization) ==
    LET current_user_dep ==
            get_current_active_user(get_current_user(oauth2_scheme(authorization)))
    IN  /\ auth_req' = AuthOutcome("users_me", "", "", authorization,
                                   current_user_dep, ~current_user_dep.raised)
        /\ UNCHANGED <<fake_users_db, issued>>
        /\ UNCHANGED <<item_vars, hero_vars>>

\* Form fields and bearer tokens tried.
Usernames == {"johndoe", "alice", "bob", "Alice", ""}
Passwords == {"secret", "secret2", "wrong", "fakehashedsecret", ""}
Authorizations == {None} \cup {Some(t) : t \in Usernames}

NoAuthReq ==
    [op |-> "none", username |-> "", password |-> "", authorization |-> None,
     status |-> 0, detail |-> "", headers |-> NoHeaders, body |-> EmptyDict,
     handler_ran |-> FALSE]

AuthInit ==
    /\ fake_users_db = InitUsersDb
    /\ auth_req = NoAuthReq
    /\ issued = {}

AuthNext ==
    \/ \E username \in Usernames, password \in Passwords : login(username, password)
    \/ \E authorization \in Authorizations : read_users_me(authorization)

\* The one response every failed login gets.
LoginFailure ==
    [status |-> 400, detail |-> "Incorrect username or password",
     headers |-> NoHeaders, body |-> EmptyDict]

ResponseOf(req) ==
    [status |-> req.status, detail |-> req.detail, headers |-> req.headers,
     body |-> req.body]

\* C4: POST /token answers {access_token, token_type: "bearer"} exactly when
\* the username is a key of fake_users_db and "fakehashed" + password is that
\* user's hashed_password; every other login, whether the username is unknown
\* or the password wrong, gets the same 400 response.
C4_LoginIffCredentialsMatch ==
    auth_req.op = "login" =>
        LET u  == auth_req.username
            ok == /\ u \in DOMAIN fake_users_db
                  /\ "fakehashed" \o auth_req.password = fake_users_db[u].hashed_password
        IN  IF ok
            THEN ResponseOf(auth_req) =
                    [status |-> 200, detail |-> "", headers |-> NoHeaders,
                     body |-> [access_token |-> u, token_type |-> "bearer"]]
            ELSE ResponseOf(auth_req) = LoginFailure

\* C4 witness. A login with a known username and a wrong password has failed, with the
\* same response an unknown username gets; the password tried is the stored
\* hash itself.
C4_Witness ==
    /\ auth_req.op = "login"
    /\ auth_req.username = "johndoe"
    /\ auth_req.password = "fakehashedsecret"
    /\ auth_req.status = 400
    /\ "johndoe" \in issued

\* C5: GET /users/me with a bearer token that is no key of fake_users_db ends
\* in 401 with the header WWW-Authenticate: Bearer, and read_users_me is not
\* executed.
C5_UnknownTokenIs401 ==
    (/\ auth_req.op = "users_me"
     /\ auth_req.authorization # None
     /\ auth_req.authorization[1] \notin DOMAIN fake_users_db) =>
        /\ auth_req.status = 401
        /\ auth_req.headers = WWWAuthenticateBearer
        /\ ~auth_req.handler_ran
        /\ auth_req.body = EmptyDict

\* C5 witness: after a login, /users/me was asked with the token "bob", which
\* is no key of fake_users_db, and answered 401.
C5_Witness ==
    /\ auth_req.op = "users_me"
    /\ auth_req.authorization = Some("bob")
    /\ auth_req.status = 401
    /\ issued # {}

\* C6 as stated: a user whose record has disabled = True is never granted
\* access, neither an access token from POST /token nor a successful
\* /users/me response.
C6_DisabledNeverGranted ==
    \A u \in DOMAIN fake_users_db :
        fake_users_db[u].disabled =>
            /\ u \notin issued
            /\ ~(auth_req.op = "login" /\ auth_req.username = u /\ auth_req.status = 200)
            /\ ~(auth_req.op = "users_me" /\ auth_req.authorization = Some(u)
                  /\ auth_req.status = 200)

\* C6 as amended: GET /users/me with the token of a user whose record has
\* disabled = True ends in 400 "Inactive user" without running read_users_me,
\* and every successful /users/me response is that of a user who is not
\* disabled (POST /token does not look at disabled).
C6_DisabledNeverReadsMe ==
    auth_req.op = "users_me" =>
        /\ (/\ auth_req.authorization # None
            /\ auth_req.authorization[1] \in DOMAIN fake_users_db
            /\ fake_users_db[auth_req.authorization[1]].disabled) =>
               (/\ auth_req.status = 400
                /\ auth_req.detail = "Inactive user"
                /\ ~auth_req.handler_ran
                /\ auth_req.body = EmptyDict)
        /\ auth_req.status = 200 =>
               (/\ auth_req.authorization # None
                /\ auth_req.authorization[1] \in DOMAIN fake_users_db
                /\ ~fake_users_db[auth_req.authorization[1]].disabled
                /\ auth_req.body.username = auth_req.authorization[1])

\* C6 witness. alice holds a token that POST /token gave her and is refused by /users/me.
C6_Witness ==
    /\ "alice" \in issued
    /\ auth_req.op = "users_me"
    /\ auth_req.authorization = Some("alice")
    /\ auth_req.status = 400

\* C10: no POST /token or GET /users/me request, successful or failing,
\* changes fake_users_db.
C10_UsersDbNeverChanges == fake_users_db = InitUsersDb

\* C10 witness. Both users have logged in and a request has just failed.
C10_Witness ==
    /\ issued = {"johndoe", "alice"}
    /\ auth_req.op = "login"
    /\ auth_req.username = "johndoe"
    /\ auth_req.password = "wrong"
    /\ auth_req.status = 400

(***************************************************************************)
(*                _34_SQL_Databases_with_SQLModel.py                       *)
(***************************************************************************)

\* Largest primary key the table is let to reach.
MaxHeroId == 2

\* limit: Annotated[int, Query(le=100)]
MaxLimit == 100

HeroUpdateFields == {"name", "age", "secret_name"}

\* Columns of the hero table that are NOT NULL besides the primary key:
\* name: str and secret_name: str (age: int | None is nullable).
NotNullColumns == {"name", "secret_name"}

\* Hero.model_validate(hero): the HeroCreate fields, id left at None.
Hero(hero) ==
    [id |-> None, name |-> hero.name, age |-> hero.age,
     secret_name |-> hero.secret_name]

\* The id the database gives a row inserted with id None: the table's
\* INTEGER primary key is the rowid, one more than the largest in use.
NextHeroId(table) ==
    IF DOMAIN table = {} THEN 1
    ELSE (CHOOSE m \in DOMAIN table : \A j \in DOMAIN table : j <= m) + 1

\* A mutant of HeroPublic: the handler's Hero is returned as it is, as
\* without response_model.
HeroUnfiltered(row) == row

\* response_model=HeroPublic: the fields of HeroBase and id.
HeroPublic(row) == [id |-> row.id, name |-> row.name, age |-> row.age]

\* A mutant of HeroUpdate_model_dump: hero.model_dump() without
\* exclude_unset, where a field that was not sent has its default None.
HeroUpdate_model_dump_all(body) ==
    [f \in HeroUpdateFields |-> IF f \in DOMAIN body THEN body[f] ELSE None]

\* hero.model_dump(exclude_unset=True) of a HeroUpdate: the fields sent.
HeroUpdate_model_dump(body) == [f \in DOMAIN body |-> body[f]]

\* hero_db.sqlmodel_update(hero_data): sets each key of hero_data that is a
\* field of the model, without validating it.
sqlmodel_update(row, hero_data) ==
    [f \in DOMAIN row |-> IF f \in DOMAIN hero_data THEN hero_data[f] ELSE row[f]]

\* session.commit() of a row: refused (IntegrityError) when a NOT NULL
\* column holds None.
CommitFails(row) == \E f \in NotNullColumns : row[f] = None

\* The rows in the order select(Hero) returns them (by rowid).
RECURSIVE RowsFrom(_, _)
RowsFrom(table, ids) ==
    IF ids = {} THEN <<>>
    ELSE LET m == CHOOSE i \in ids : \A j \in ids : i <= j
         IN  <<table[m]>> \o RowsFrom(table, ids \ {m})

\* select(Hero).offset(offset).limit(limit)
SelectHeroes(table, offset, limit) ==
    LET rows == RowsFrom(table, DOMAIN table)
        last == IF offset + limit < Len(rows) THEN offset + limit ELSE Len(rows)
    IN  SubSeq(rows, offset + 1, last)

HeroOutcome(op, hero_id, body, status, detail, exc, response) ==
    [op |-> op, hero_id |-> hero_id, body |-> body, status |-> status,
     detail |-> detail, exc |-> exc, response |-> response]

HeroNotFound(op, hero_id, body) ==
    HeroOutcome(op, hero_id, body, 404, "Hero not found", "", EmptyDict)

\* A mutant of delete_hero: the row is deleted without the existence check
\* (session.delete of what session.get returned), an unhandled error when
\* there is no such row.
delete_hero_unchecked(hero_id) ==
    /\ heroes' = [id \in DOMAIN heroes \ {hero_id} |-> heroes[id]]
    /\ deleted' = IF hero_id \in DOMAIN heroes THEN deleted \cup {hero_id} ELSE deleted
    /\ hero_req' = IF hero_id \in DOMAIN heroes
                   THEN HeroOutcome("delete", hero_id, EmptyDict, 200, "", "", [ok |-> TRUE])
                   ELSE HeroOutcome("delete", hero_id, EmptyDict, 500, "",
                                    "UnmappedInstanceError", EmptyDict)
    /\ UNCHANGED <<item_vars, auth_vars>>

\* POST /heroes/
create_hero(hero) ==
    LET db_hero == Hero(hero)
        id == NextHeroId(heroes)
        refreshed == [db_hero EXCEPT !.id = id]
    IN  /\ id <= MaxHeroId
        /\ heroes' = [i \in DOMAIN heroes \cup {id} |->
                         IF i = id THEN refreshed ELSE heroes[i]]
        /\ deleted' = deleted \ {id}
        /\ hero_req' = HeroOutcome("create", 0, hero, 200, "", "", HeroPublic(refreshed))
        /\ UNCHANGED <<item_vars, auth_vars>>

\* GET /heroes/?offset=&limit=
read_heroes(offset, limit) ==
    /\ hero_req' =
          IF limit > MaxLimit
          THEN HeroOutcome("list", 0, [offset |-> offset, limit |-> limit], 422,
                           "limit: less than or equal to 100", "", EmptyDict)
          ELSE LET found == SelectHeroes(heroes, offset, limit)
               IN  HeroOutcome("list", 0, [offset |-> offset, limit |-> limit], 200,
                               "", "", [i \in 1..Len(found) |-> HeroPublic(found[i])])
    /\ UNCHANGED <<heroes, deleted>>
    /\ UNCHANGED <<item_vars, auth_vars>>

\* GET /heroes/{hero_id}
read_hero(hero_id) ==
    /\ hero_req' =
          IF hero_id \notin DOMAIN heroes
          THEN HeroNotFound("read", hero_id, EmptyDict)
          ELSE HeroOutcome("read", hero_id, EmptyDict, 200, "", "",
                           HeroPublic(heroes[hero_id]))
    /\ UNCHANGED <<heroes, deleted>>
    /\ UNCHANGED <<item_vars, auth_vars>>

\* PATCH /heroes/{hero_id}
update_hero(hero_id, hero) ==
    /\ IF hero_id \notin DOMAIN heroes
       THEN /\ hero_req' = HeroNotFound("update", hero_id, hero)
            /\ heroes' = heroes
       ELSE LET hero_data == HeroUpdate_model_dump(hero)
                hero_db == sqlmodel_update(heroes[hero_id], hero_data)
            IN  IF CommitFails(hero_db)
                THEN /\ hero_req' = HeroOutcome("update", hero_id, hero, 500, "",
                                                "IntegrityError", EmptyDict)
                     /\ heroes' = heroes
                ELSE /\ hero_req' = HeroOutcome("update", hero_id, hero, 200, "", "",
                                                HeroPublic(hero_db))
                     /\ heroes' = [heroes EXCEPT ![hero_id] = hero_db]
    /\ UNCHANGED deleted
    /\ UNCHANGED <<item_vars, auth_vars>>

\* DELETE /heroes/{hero_id}
delete_hero(hero_id) ==
    /\ IF hero_id \notin DOMAIN heroes
       THEN /\ hero_req' = HeroNotFound("delete", hero_id, EmptyDict)
            /\ UNCHANGED <<heroes, deleted>>
       ELSE /\ heroes' = [id \in DOMAIN heroes \ {hero_id} |-> heroes[id]]
            /\ deleted' = deleted \cup {hero_id}
            /\ hero_req' = HeroOutcome("delete", hero_id, EmptyDict, 200, "", "",
                                       [ok |-> TRUE])
    /\ UNCHANGED <<item_vars, auth_vars>>

\* Request values tried.
HeroNames == {"Deadpond", "Rusty-Man"}
HeroSecrets == {"Dive Wilson", "Tommy Sharp"}
HeroAges == {None, Some(48)}

\* HeroCreate bodies: name and secret_name are required strings.
HeroCreates ==
    [name : {Some(n) : n \in HeroNames}, age : HeroAges,
     secret_name : {Some(x) : x \in HeroSecrets}]

\* The value a HeroUpdate body gives to a field it contains: a value, or an
\* explicit null (every field of HeroUpdate is Optional).
HeroUpdateValue(f, null) ==
    IF null THEN None
    ELSE CASE f = "name"        -> Some("Rusty-Man")
           [] f = "age"         -> Some(48)
           [] f = "secret_name" -> Some("Tommy Sharp")

\* HeroUpdate bodies: any subset of the fields sent, each with a value or null.
HeroUpdates ==
    {[f \in S |-> HeroUpdateValue(f, f \in N)] :
        <<S, N>> \in {<<S, N>> \in (SUBSET HeroUpdateFields) \X (SUBSET HeroUpdateFields) :
                        N \subseteq S}}

\* Path parameters tried: every id the table can hold and one it cannot.
HeroIds == 1..(MaxHeroId + 1)

Offsets == {0, 1}
Limits == {0, 1, MaxLimit, MaxLimit + 1}

NoHeroReq == HeroOutcome("none", 0, EmptyDict, 0, "", "", EmptyDict)

\* The table as create_db_and_tables leaves a new database file: no rows.
HeroesInit ==
    /\ heroes = <<>>
    /\ hero_req = NoHeroReq
    /\ deleted = {}

HeroesNext ==
    \/ \E hero \in HeroCreates : create_hero(hero)
    \/ \E offset \in Offsets, limit \in Limits : read_heroes(offset, limit)
    \/ \E hero_id \in HeroIds : read_hero(hero_id)
    \/ \E hero_id \in HeroIds, hero \in HeroUpdates : update_hero(hero_id, hero)
    \/ \E hero_id \in HeroIds : delete_hero(hero_id)

HeroPublicFields == {"id", "name", "age"}

\* A hero as a client is sent it: the HeroPublic fields alone, with an id.
IsPublicHeroOf(r, row) ==
    /\ DOMAIN r = HeroPublicFields
    /\ r.id \in 1..MaxHeroId
    /\ r.id = row.id /\ r.name = row.name /\ r.age = row.age

\* C7: every hero in a response of create_hero, read_heroes, read_hero or
\* update_hero carries the fields id, name and age of its row and nothing
\* else (no secret_name), and its id is a number, never null.
C7_ResponsesHideSecretName ==
    /\ (hero_req.op \in {"create", "read", "update"} /\ hero_req.status = 200) =>
          /\ DOMAIN hero_req.response = HeroPublicFields
          /\ hero_req.response.id \in DOMAIN heroes
          /\ IsPublicHeroOf(hero_req.response, heroes[hero_req.response.id])
    /\ (hero_req.op = "list" /\ hero_req.status = 200) =>
          \A i \in 1..Len(hero_req.response) :
              /\ DOMAIN hero_req.response[i] = HeroPublicFields
              /\ hero_req.response[i].id \in DOMAIN heroes
              /\ IsPublicHeroOf(hero_req.response[i], heroes[hero_req.response[i].id])
    /\ hero_req.op \in {"create", "read", "update", "list"} =>
          (hero_req.status # 200 => hero_req.response = EmptyDict)

\* C7 witness. A listing of two heroes has been answered.
C7_Witness ==
    /\ hero_req.op = "list" /\ hero_req.status = 200
    /\ Len(hero_req.response) = 2
    /\ heroes[1].secret_name # None

\* C8: read_hero, update_hero and delete_hero answer 404 "Hero not found"
\* for a hero_id that has no row, and leave the table as it was; a successful
\* DELETE removes the row, and only create_hero adds one, so every later
\* GET, PATCH or DELETE of a deleted id is a 404 until a create reuses it.
C8_MissingHeroIs404 ==
    [][/\ (hero_req'.op \in {"read", "update", "delete"}
           /\ hero_req'.hero_id \notin DOMAIN heroes) =>
             /\ hero_req'.status = 404
             /\ hero_req'.detail = "Hero not found"
             /\ hero_req'.exc = ""
             /\ heroes' = heroes
       /\ (hero_req'.op = "delete" /\ hero_req'.status = 200) =>
             /\ hero_req'.hero_id \in DOMAIN heroes
             /\ hero_req'.hero_id \notin DOMAIN heroes'
       /\ (hero_req'.op \in {"read", "update", "delete"}
           /\ hero_req'.hero_id \in deleted) =>
             hero_req'.status = 404
       /\ hero_req'.op # "create" => DOMAIN heroes' \subseteq DOMAIN heroes]_vars

\* C8 witness. A second DELETE of an id that was deleted has been answered 404, while
\* another row is still in the table.
C8_Witness ==
    /\ hero_req.op = "delete"
    /\ hero_req.hero_id \in deleted
    /\ hero_req.status = 404
    /\ heroes # <<>>

\* C9: PATCH /heroes/{hero_id} on an existing hero changes no field of the
\* row that the body did not send, never the row's id, and no other row; when
\* it succeeds every field sent has the value sent.
C9_PatchUpdatesOnlySentFields ==
    [][(hero_req'.op = "update" /\ hero_req'.hero_id \in DOMAIN heroes) =>
        LET id == hero_req'.hero_id
            b  == hero_req'.body
        IN  /\ DOMAIN heroes' = DOMAIN heroes
            /\ \A j \in DOMAIN heroes \ {id} : heroes'[j] = heroes[j]
            /\ heroes'[id].id = id
            /\ \A f \in HeroUpdateFields \ DOMAIN b : heroes'[id][f] = heroes[id][f]
            /\ hero_req'.status = 200 =>
                  \A f \in DOMAIN b : heroes'[id][f] = b[f]
            /\ hero_req'.status # 200 => heroes' = heroes]_vars

\* C9 witness. A PATCH that sent name and secret_name only has succeeded on a hero whose
\* age is set, with another hero in the table.
C9_Witness ==
    /\ hero_req.op = "update" /\ hero_req.status = 200
    /\ DOMAIN hero_req.body = {"name", "secret_name"}
    /\ hero_req.hero_id = 1
    /\ heroes[1].age = Some(48)
    /\ heroes[1].name = Some("Rusty-Man")
    /\ 2 \in DOMAIN heroes

(***************************************************************************)
(*                          Specifications                                 *)
(***************************************************************************)

Init ==
    /\ ItemsInit
    /\ AuthInit
    /\ HeroesInit

\* Each example is a program of its own.
SpecItems == Init /\ [][ItemsNext]_vars

SpecAuth == Init /\ [][AuthNext]_vars

SpecHeroes == Init /\ [][HeroesNext]_vars

\* The three examples side by side, their requests interleaved.
Next == ItemsNext \/ AuthNext \/ HeroesNext

Spec == Init /\ [][Next]_vars


=============================================================================
